---- MODULE Spec2Model ----
(***************************************************************************)
(* State-machine model of the tmbackend HTTP service (FastAPI + MongoDB):  *)
(* session verification (auth.py), login / me / logout and the resume     *)
(* CRUD routes (api.py), and the index set-up of the store (db.py).        *)
(*                                                                         *)
(* Every await on the store is one atomic store step; the handler code     *)
(* between two awaits runs in the step that resumes it.  The clock is      *)
(* datetime.utcnow(), read in whole hours.                                 *)
(***************************************************************************)
EXTENDS Integers, Sequences, FiniteSets, TLC

VARIABLES now, users, uniqueIdx, resumes, req, ncalls, lreq, sreq, jar, minted, loggedOut,
          tailored, treq, loop, startup, render

vars == <<now, users, uniqueIdx, resumes, req, ncalls, lreq, sreq, jar, minted, loggedOut,
          tailored, treq, loop, startup, render>>

---------------------------------------------------------------------------
(* Bounds of the model *)

MaxClock == 1
MaxResumes == 2
MaxCalls == 3
MaxLogins == 3
MaxSessionClock == 26
MaxSessionLogins == 1
MaxArtifacts == 2
MaxTailorCalls == 3

(* Program constants *)

AUTH_ACCESS_TOKEN_EXPIRE_HOURS == 24
API_ACCESS_TOKEN_EXPIRE_HOURS == 24
SecondsPerHour == 3600

(* Request slots: concurrent in-flight requests of each family *)
Reqs == {"q1", "q2"}
LReqs == {"l1", "l2"}
SReqs == {"s1"}
TReqs == {"t1", "t2"}

None == "None"
NoUser == 0
BadId == 0

---------------------------------------------------------------------------
(* Session tokens (auth.py) *)

SECRET_KEY == "SECRET_KEY"

\* A cookie value: absent, or a JWT-shaped string.  wf: parses as a JWT;
\* sig: the key it is signed with; sub / exp: its claims (NoUser, -1: absent).
NoCookie == [kind |-> "none", wf |-> FALSE, sig |-> "none", sub |-> NoUser, exp |-> -1]
Garbage == [kind |-> "token", wf |-> FALSE, sig |-> "none", sub |-> NoUser, exp |-> -1]

Token(sub, exp, sig) == [kind |-> "token", wf |-> TRUE, sig |-> sig, sub |-> sub, exp |-> exp]

create_access_token(user_id, t) ==
    Token(user_id, t + AUTH_ACCESS_TOKEN_EXPIRE_HOURS, SECRET_KEY)

\* jwt.decode(token, SECRET_KEY, algorithms=[ALGORITHM]): raises JWTError on a
\* malformed token, on a signature that does not verify, and
\* (ExpiredSignatureError) when exp < now; a token without exp is not checked.
jwt_decode_ok(token, t) ==
    /\ token.wf
    /\ token.sig = SECRET_KEY
    /\ ~(token.exp # -1 /\ token.exp < t)

Resp(status, detail) == [status |-> status, detail |-> detail]

Unauthorized(detail) == [ok |-> FALSE, user_id |-> NoUser, resp |-> Resp(401, detail)]

\* Mutant: an expired token answered with a message of its own.
verify_token_ExpiredDetail(token, t) ==
    IF token.wf /\ token.sig = SECRET_KEY /\ token.exp # -1 /\ token.exp < t
    THEN Unauthorized("Token has expired")
    ELSE IF jwt_decode_ok(token, t) /\ token.sub # NoUser
    THEN [ok |-> TRUE, user_id |-> token.sub, resp |-> Resp(200, "")]
    ELSE Unauthorized("Invalid authentication credentials")

verify_token(token, t) ==
    IF jwt_decode_ok(token, t)
    THEN IF token.sub = NoUser
         THEN Unauthorized("Invalid authentication credentials")
         ELSE [ok |-> TRUE, user_id |-> token.sub, resp |-> Resp(200, "")]
    ELSE Unauthorized("Invalid authentication credentials")

\* Mutant: a server-side revocation list that logout fills.
get_current_user_id_Revoking(cookie, t) ==
    IF cookie.kind = "none" \/ cookie \in loggedOut
    THEN Unauthorized("Not authenticated")
    ELSE verify_token(cookie, t)

get_current_user_id(cookie, t) ==
    IF cookie.kind = "none"
    THEN Unauthorized("Not authenticated")
    ELSE verify_token(cookie, t)

---------------------------------------------------------------------------
(* Resume routes (api.py) *)

UserIds == {1, 2}
Roles == {"r1", "r2"}
Contents == {"c1", "c2"}
Ops == {"create", "list", "get", "update", "delete"}

\* Request bodies: ResumeCreate has both fields, ResumeUpdate has each or None.
CreateRoles == {"r1"}
CreateContents == {"c1"}
UpdateRoles == {None, "r2"}
UpdateContents == {None, "c2"}

\* Cookies presented to the resume routes: none, and the
\* session tokens of the two users (minted at hour 0).
ResumeCookies == {NoCookie} \cup {create_access_token(u, 0) : u \in UserIds}

\* Path ids: BadId is a string that is no ObjectId; k >= 1 is the k-th ObjectId.
Rids == 0..MaxResumes

ObjectId_is_valid(rid) == rid # BadId

NoItem == [id |-> 0, target_role |-> None, content |-> None, date_uploaded |-> -1, updated_at |-> -1]

NoResp == [status |-> 0, detail |-> "", item |-> NoItem, items |-> <<>>]

Err(status, detail) == [status |-> status, detail |-> detail, item |-> NoItem, items |-> <<>>]

IdleReq ==
    [op |-> "none", pc |-> "idle", uid |-> NoUser, rid |-> 0, role |-> None,
     content |-> None, t |-> 0, case |-> "none", delAtStart |-> {}, resp |-> NoResp]

Exists(rid) == rid \in DOMAIN resumes

ResumeResponse(rid, doc) ==
    [status |-> 200, detail |-> "",
     item |-> [id |-> rid, target_role |-> doc.target_role, content |-> doc.content,
               date_uploaded |-> doc.date_uploaded, updated_at |-> doc.updated_at],
     items |-> <<>>]

ResumeListItem(rid) ==
    [id |-> rid, target_role |-> resumes[rid].target_role, content |-> None,
     date_uploaded |-> resumes[rid].date_uploaded, updated_at |-> resumes[rid].updated_at]

\* The find filters of the four read paths.
ListFilter(k, uid) == resumes[k].user_id = uid /\ resumes[k].is_deleted = FALSE

\* Mutant: get_resume's filter without "is_deleted": False.
GetFilter_NoDeleted(k, rid, uid) == k = rid /\ resumes[k].user_id = uid

GetFilter(k, rid, uid) ==
    k = rid /\ resumes[k].user_id = uid /\ resumes[k].is_deleted = FALSE

\* Mutant: update_resume's filter without "user_id": user_id.
UpdateFilter_NoOwner(k, rid, uid) == k = rid /\ resumes[k].is_deleted = FALSE

UpdateFilter(k, rid, uid) ==
    k = rid /\ resumes[k].user_id = uid /\ resumes[k].is_deleted = FALSE

\* Mutant: delete_resume's filter without "is_deleted": False.
DeleteFilter_NoDeleted(k, rid, uid) == k = rid /\ resumes[k].user_id = uid

DeleteFilter(k, rid, uid) ==
    k = rid /\ resumes[k].user_id = uid /\ resumes[k].is_deleted = FALSE

\* What the caller's lookup meets, whatever the filter does with it.
LookupCase(rid, uid) ==
    IF ~Exists(rid) THEN "absent"
    ELSE IF resumes[rid].user_id # uid THEN "foreign"
    ELSE IF resumes[rid].is_deleted THEN "deleted"
    ELSE "visible"

Deleted(ids) == {k \in ids : Exists(k) /\ resumes[k].is_deleted}

\* A new request takes the first free slot (the slots are interchangeable).
SlotBefore(q, r) == q = "q1" /\ r = "q2"

\* Depends(get_current_user_id) of a resume route, then the route's first
\* synchronous part: `started` is the request once the handler is entered.
Call(r, cookie, started) ==
    /\ req[r].pc = "idle"
    /\ \A q \in Reqs : SlotBefore(q, r) => req[q].pc # "idle"
    /\ ncalls < MaxCalls
    /\ ncalls' = ncalls + 1
    /\ LET auth == get_current_user_id(cookie, now) IN
       req' = [req EXCEPT ![r] =
                 IF auth.ok
                 THEN [started EXCEPT !.uid = auth.user_id]
                 ELSE [IdleReq EXCEPT !.op = started.op, !.pc = "done", !.rid = started.rid,
                                      !.resp = Err(401, auth.resp.detail)]]
    /\ UNCHANGED <<now, users, uniqueIdx, resumes, lreq, sreq, jar, minted, loggedOut, tailored, treq, loop, startup, render>>

\* Mutant: the id is looked at before the session.
CallById_IdFirst(r, cookie, op, rid, role, content) ==
    /\ req[r].pc = "idle"
    /\ \A q \in Reqs : SlotBefore(q, r) => req[q].pc # "idle"
    /\ ncalls < MaxCalls
    /\ ncalls' = ncalls + 1
    /\ LET auth == get_current_user_id(cookie, now) IN
       req' = [req EXCEPT ![r] =
                 IF ~ObjectId_is_valid(rid)
                 THEN [IdleReq EXCEPT !.op = op, !.pc = "done", !.rid = rid,
                                      !.uid = auth.user_id,
                                      !.resp = Err(400, "Invalid resume ID")]
                 ELSE IF auth.ok
                 THEN [IdleReq EXCEPT !.op = op, !.pc = "find", !.rid = rid, !.role = role,
                                      !.content = content, !.uid = auth.user_id,
                                      !.delAtStart = Deleted({rid})]
                 ELSE [IdleReq EXCEPT !.op = op, !.pc = "done", !.rid = rid,
                                      !.resp = Err(401, auth.resp.detail)]]
    /\ UNCHANGED <<now, users, uniqueIdx, resumes, lreq, sreq, jar, minted, loggedOut,
                   tailored, treq, loop, startup, render>>

\* Routes addressed by id: the ObjectId.is_valid check, then the first find.
CallById(r, cookie, op, rid, role, content) ==
    Call(r, cookie,
         IF ObjectId_is_valid(rid)
         THEN [IdleReq EXCEPT !.op = op, !.pc = "find", !.rid = rid, !.role = role,
                              !.content = content, !.delAtStart = Deleted({rid})]
         ELSE [IdleReq EXCEPT !.op = op, !.pc = "done", !.rid = rid,
                              !.resp = Err(400, "Invalid resume ID")])

StoreStep(r, op, pc) == req[r].op = op /\ req[r].pc = pc

ResumeFrame == UNCHANGED <<now, users, uniqueIdx, ncalls, lreq, sreq, jar, minted, loggedOut, tailored, treq, loop, startup, render>>

\* POST /resumes
create_resume_call(r) ==
    \E c \in ResumeCookies, role \in CreateRoles, content \in CreateContents :
        Call(r, c, [IdleReq EXCEPT !.op = "create", !.pc = "insert", !.role = role,
                                   !.content = content, !.t = now])

create_resume_insert(r) ==
    /\ StoreStep(r, "create", "insert")
    /\ Len(resumes) < MaxResumes
    /\ LET doc == [user_id |-> req[r].uid, target_role |-> req[r].role,
                   content |-> req[r].content, date_uploaded |-> req[r].t,
                   updated_at |-> req[r].t, is_deleted |-> FALSE]
           rid == Len(resumes) + 1
       IN /\ resumes' = Append(resumes, doc)
          /\ req' = [req EXCEPT ![r].pc = "done", ![r].rid = rid, ![r].t = 0,
                                ![r].resp = ResumeResponse(rid, doc)]
    /\ ResumeFrame

\* GET /resumes
list_resumes_call(r) ==
    \E c \in ResumeCookies :
        Call(r, c, [IdleReq EXCEPT !.op = "list", !.pc = "find",
                                   !.delAtStart = Deleted(DOMAIN resumes)])

\* Mutant: find(...) without the sort: the documents in insertion order.
SortedDesc_Unsorted(S) ==
    {s \in [1..Cardinality(S) -> S] :
        \A i, j \in 1..Cardinality(S) : i < j => s[i] < s[j]}

\* find(...).sort("updated_at", -1): the matching documents in an order of
\* non-increasing updated_at (the order of ties is the store's).
SortedDesc(S) ==
    {s \in [1..Cardinality(S) -> S] :
        /\ \A i, j \in 1..Cardinality(S) : i # j => s[i] # s[j]
        /\ \A i, j \in 1..Cardinality(S) :
              i < j => resumes[s[i]].updated_at >= resumes[s[j]].updated_at}

list_resumes_find(r) ==
    /\ StoreStep(r, "list", "find")
    /\ \E s \in SortedDesc({k \in DOMAIN resumes : ListFilter(k, req[r].uid)}) :
          req' = [req EXCEPT ![r].pc = "done",
                             ![r].resp = [status |-> 200, detail |-> "", item |-> NoItem,
                                          items |-> [i \in DOMAIN s |-> ResumeListItem(s[i])]]]
    /\ UNCHANGED resumes
    /\ ResumeFrame

\* GET /resumes/{resume_id}
get_resume_call(r) ==
    \E c \in ResumeCookies, rid \in Rids : CallById(r, c, "get", rid, None, None)

get_resume_find(r) ==
    /\ StoreStep(r, "get", "find")
    /\ LET rid == req[r].rid
           found == \E k \in DOMAIN resumes : GetFilter(k, rid, req[r].uid)
       IN req' = [req EXCEPT ![r].pc = "done",
                             ![r].case = LookupCase(rid, req[r].uid),
                             ![r].resp = IF found THEN ResumeResponse(rid, resumes[rid])
                                         ELSE Err(404, "Resume not found")]
    /\ UNCHANGED resumes
    /\ ResumeFrame

\* PUT /resumes/{resume_id}
update_resume_call(r) ==
    \E c \in ResumeCookies, rid \in Rids, role \in UpdateRoles, content \in UpdateContents :
        CallById(r, c, "update", rid, role, content)

update_resume_find(r) ==
    /\ StoreStep(r, "update", "find")
    /\ LET rid == req[r].rid
           found == \E k \in DOMAIN resumes : UpdateFilter(k, rid, req[r].uid)
       IN req' = [req EXCEPT ![r].case = LookupCase(rid, req[r].uid),
                             ![r].pc = IF found THEN "write" ELSE "done",
                             ![r].t = IF found THEN now ELSE 0,
                             ![r].resp = IF found THEN NoResp
                                         ELSE Err(404, "Resume not found")]
    /\ UNCHANGED resumes
    /\ ResumeFrame

\* Mutant: $set of both fields whether or not the request carries them.
UpdateSet_Overwrite(doc, t, role, content) ==
    [doc EXCEPT !.updated_at = t, !.target_role = role, !.content = content]

UpdateSet(doc, t, role, content) ==
    [doc EXCEPT !.updated_at = t,
                !.target_role = IF role # None THEN role ELSE @,
                !.content = IF content # None THEN content ELSE @]

\* update_one({"_id": ObjectId(resume_id)}, {"$set": update_data})
update_resume_write(r) ==
    /\ StoreStep(r, "update", "write")
    /\ resumes' = [k \in DOMAIN resumes |->
                     IF k = req[r].rid
                     THEN UpdateSet(resumes[k], req[r].t, req[r].role, req[r].content)
                     ELSE resumes[k]]
    /\ req' = [req EXCEPT ![r].pc = "readback"]
    /\ ResumeFrame

\* find_one({"_id": ObjectId(resume_id)})
update_resume_readback(r) ==
    /\ StoreStep(r, "update", "readback")
    /\ req' = [req EXCEPT ![r].pc = "done", ![r].t = 0,
                          ![r].resp = ResumeResponse(req[r].rid, resumes[req[r].rid])]
    /\ UNCHANGED resumes
    /\ ResumeFrame

\* DELETE /resumes/{resume_id}
delete_resume_call(r) ==
    \E c \in ResumeCookies, rid \in Rids : CallById(r, c, "delete", rid, None, None)

delete_resume_find(r) ==
    /\ StoreStep(r, "delete", "find")
    /\ LET rid == req[r].rid
           found == \E k \in DOMAIN resumes : DeleteFilter(k, rid, req[r].uid)
       IN req' = [req EXCEPT ![r].case = LookupCase(rid, req[r].uid),
                             ![r].pc = IF found THEN "write" ELSE "done",
                             ![r].t = IF found THEN now ELSE 0,
                             ![r].resp = IF found THEN NoResp
                                         ELSE Err(404, "Resume not found")]
    /\ UNCHANGED resumes
    /\ ResumeFrame

DeleteSet(doc, t) == [doc EXCEPT !.is_deleted = TRUE, !.updated_at = t]

delete_resume_write(r) ==
    /\ StoreStep(r, "delete", "write")
    /\ resumes' = [k \in DOMAIN resumes |->
                     IF k = req[r].rid THEN DeleteSet(resumes[k], req[r].t)
                     ELSE resumes[k]]
    /\ req' = [req EXCEPT ![r].pc = "done", ![r].t = 0,
                          ![r].resp = [NoResp EXCEPT !.status = 200,
                                                     !.detail = "Resume deleted successfully"]]
    /\ ResumeFrame

\* The client has read the response; the slot serves the next request.
Retire(r) ==
    /\ req[r].pc = "done"
    /\ req' = [req EXCEPT ![r] = IdleReq]
    /\ UNCHANGED resumes
    /\ ResumeFrame

Tick(max) ==
    /\ now < max
    /\ now' = now + 1
    /\ UNCHANGED <<users, uniqueIdx, resumes, req, ncalls, lreq, sreq, jar, minted, loggedOut, tailored, treq, loop, startup, render>>

TickResume == Tick(MaxClock)

---------------------------------------------------------------------------
(* Users and logins (api.py google_login, db.py create_indexes) *)

Subs == {"g1", "g2"}
Emails == {"e1", "e2"}

UserDoc(sub, email, created, last) ==
    [google_sub |-> sub, email |-> email, created_at |-> created, last_login_at |-> last]

\* The two users whose sessions the resume routes are called with.
TwoUsers == <<UserDoc("g1", "e1", 0, 0), UserDoc("g2", "e2", 0, 0)>>

\* The body of POST /auth/google: a Google ID token that verify_oauth2_token
\* accepts for (sub, email), or one it rejects with ValueError.
GoogleToken(sub, email) == [valid |-> TRUE, raises |-> None, sub |-> sub, email |-> email]
BadGoogleToken == [valid |-> FALSE, raises |-> "ValueError", sub |-> None, email |-> None]

\* A token for which verify_oauth2_token raises an exception that is no
\* ValueError: GoogleAuthError (wrong issuer) or TransportError (Google's
\* certificates cannot be fetched).
UnverifiedGoogleToken ==
    [valid |-> FALSE, raises |-> "GoogleAuthError", sub |-> None, email |-> None]

GoogleTokens ==
    {GoogleToken(s, e) : s \in Subs, e \in Emails} \cup {BadGoogleToken, UnverifiedGoogleToken}

IdleLogin ==
    [pc |-> "idle", sub |-> None, email |-> None, t |-> 0, found |-> 0,
     status |-> 0, detail |-> "", id |-> 0, cookie |-> NoCookie, max_age |-> 0,
     mint_t |-> -1, raised |-> None, verifications |-> 0]

\* verify_google_token: user_info, or HTTPException(401) on ValueError; any
\* other exception leaves the handler and the framework answers 500.
verify_google_token(g) ==
    IF g.valid
    THEN [ok |-> TRUE, google_sub |-> g.sub, email |-> g.email, resp |-> Resp(200, "")]
    ELSE IF g.raises = "ValueError"
    THEN [ok |-> FALSE, google_sub |-> None, email |-> None,
          resp |-> Resp(401, "Invalid Google token")]
    ELSE [ok |-> FALSE, google_sub |-> None, email |-> None,
          resp |-> Resp(500, "Internal Server Error")]

LoginSlotBefore(q, r) == q = "l1" /\ r = "l2"

LoginFrame ==
    UNCHANGED <<now, uniqueIdx, resumes, req, sreq, loggedOut, tailored, treq, loop, startup, render>>

\* POST /auth/google up to the first await on the store; `sequential`: the
\* client sends a login only when no other login is in flight.
google_login_call(r, g, sequential, maxCalls) ==
    /\ lreq[r].pc = "idle"
    /\ \A q \in DOMAIN lreq : LoginSlotBefore(q, r) => lreq[q].pc # "idle"
    /\ sequential => \A q \in DOMAIN lreq : lreq[q].pc \in {"idle", "done"}
    /\ ncalls < maxCalls
    /\ ncalls' = ncalls + 1
    /\ LET user_info == verify_google_token(g) IN
       lreq' = [lreq EXCEPT ![r] =
                  IF user_info.ok
                  THEN [IdleLogin EXCEPT !.pc = "find", !.sub = user_info.google_sub,
                                         !.email = user_info.email, !.t = now,
                                         !.verifications = 1]
                  ELSE [IdleLogin EXCEPT !.pc = "done", !.status = user_info.resp.status,
                                         !.detail = user_info.resp.detail,
                                         !.raised = g.raises, !.verifications = 1]]
    /\ UNCHANGED <<users, jar, minted>>
    /\ LoginFrame

\* Mutant: the lookup keyed by email instead of google_sub.
FindUserFilter_ByEmail(doc, sub, email) == doc.email = email

\* find_one({"google_sub": user_info["google_sub"]})
FindUserFilter(doc, sub, email) == doc.google_sub = sub

\* The first stored document that matches, 0 if none.
FirstUser(sub, email) ==
    IF \E i \in DOMAIN users : FindUserFilter(users[i], sub, email)
    THEN CHOOSE i \in DOMAIN users :
            /\ FindUserFilter(users[i], sub, email)
            /\ \A j \in DOMAIN users : FindUserFilter(users[j], sub, email) => i <= j
    ELSE 0

google_login_find(r) ==
    /\ lreq[r].pc = "find"
    /\ LET existing_user == FirstUser(lreq[r].sub, lreq[r].email) IN
       lreq' = [lreq EXCEPT ![r].found = existing_user,
                            ![r].pc = IF existing_user # 0 THEN "update" ELSE "insert"]
    /\ UNCHANGED <<users, ncalls, jar, minted>>
    /\ LoginFrame

\* A sub claim that is no ObjectId string ("some-user" in test_api.py).
SomeUser == -1

\* Mutant: the token names the Google subject, which is no id of the store.
TokenSubject_GoogleSub(user_id) == SomeUser

\* The sub claim of the session token: str(existing_user["_id"]) or
\* str(result.inserted_id).
TokenSubject(user_id) == user_id

\* create_access_token({"sub": user_id}), response.set_cookie(...), return
LoginSuccess(r, user_id) ==
    /\ lreq' = [lreq EXCEPT ![r].pc = "done", ![r].status = 200, ![r].id = user_id,
                            ![r].cookie = create_access_token(TokenSubject(user_id), now),
                            ![r].max_age = API_ACCESS_TOKEN_EXPIRE_HOURS * SecondsPerHour,
                            ![r].mint_t = now]
    /\ minted' = minted \cup {create_access_token(TokenSubject(user_id), now)}
    /\ jar' = create_access_token(TokenSubject(user_id), now)

\* update_one({"google_sub": ...}, {"$set": {"last_login_at": current_time}})
SetLastLogin(us, sub, t) ==
    [i \in DOMAIN us |->
        IF /\ us[i].google_sub = sub
           /\ \A j \in DOMAIN us : us[j].google_sub = sub => i <= j
        THEN [us[i] EXCEPT !.last_login_at = t]
        ELSE us[i]]

google_login_update(r) ==
    /\ lreq[r].pc = "update"
    /\ users' = SetLastLogin(users, lreq[r].sub, lreq[r].t)
    /\ LoginSuccess(r, lreq[r].found)
    /\ UNCHANGED ncalls
    /\ LoginFrame

\* Mutant: the store without the unique index on google_sub.
DuplicateKey_NoIndex(sub) == FALSE

\* create_index("google_sub", unique=True): insert_one raises DuplicateKeyError
DuplicateKey(sub) == uniqueIdx /\ \E i \in DOMAIN users : users[i].google_sub = sub

google_login_insert(r) ==
    /\ lreq[r].pc = "insert"
    /\ IF DuplicateKey(lreq[r].sub)
       THEN /\ lreq' = [lreq EXCEPT ![r].pc = "done", ![r].status = 500,
                                    ![r].detail = "Internal Server Error"]
            /\ UNCHANGED <<users, jar, minted>>
       ELSE /\ users' = Append(users, UserDoc(lreq[r].sub, lreq[r].email,
                                              lreq[r].t, lreq[r].t))
            /\ LoginSuccess(r, Len(users) + 1)
    /\ UNCHANGED ncalls
    /\ LoginFrame

LoginRetire(r) ==
    /\ lreq[r].pc = "done"
    /\ lreq' = [lreq EXCEPT ![r] = IdleLogin]
    /\ UNCHANGED <<users, ncalls, jar, minted>>
    /\ LoginFrame

TickLogin == Tick(MaxClock)

---------------------------------------------------------------------------
(* Sessions: GET /auth/me and POST /auth/logout (api.py), cookies (auth.py) *)

OTHER_KEY == "other key"

\* Tokens signed with SECRET_KEY outside login, as test_api.py builds them:
\* one of "some-user" that expires at hour 1, one with no sub and no exp.
TestTokens == {Token(SomeUser, 1, SECRET_KEY), Token(NoUser, -1, SECRET_KEY)}

\* A minted token whose signature no longer verifies (any edit of it).
Tampered(token) == [token EXCEPT !.sig = OTHER_KEY]

\* What a client can send as the access_token cookie: nothing, a string that
\* is no JWT, any token the service has minted (kept or copied before a
\* logout), a tampered copy of one, and the test tokens.
PresentableCookies ==
    {NoCookie, Garbage} \cup minted \cup {Tampered(c) : c \in minted} \cup TestTokens

NoUserDoc == UserDoc(None, None, -1, -1)

\* The hour of a verification relative to the exp claim of the cookie.
When(cookie, t) ==
    IF cookie.exp = -1 THEN "no exp"
    ELSE IF t < cookie.exp THEN "before exp"
    ELSE IF t = cookie.exp THEN "at exp"
    ELSE "after exp"

IdleSession ==
    [pc |-> "idle", cookie |-> NoCookie, when |-> "never", uid |-> NoUser,
     afterLogout |-> FALSE, status |-> 0, detail |-> "", user |-> NoUserDoc]

SessionFrame ==
    UNCHANGED <<now, users, uniqueIdx, resumes, req, ncalls, lreq, minted,
                tailored, treq, loop, startup, render>>

\* GET /auth/me: Depends(get_current_user_id), up to the await on the store.
\* The client sends it once its previous request has been answered.
get_current_user_call(r, cookie) ==
    /\ sreq[r].pc \in {"idle", "done"}
    /\ LET auth == get_current_user_id(cookie, now) IN
       sreq' = [sreq EXCEPT ![r] =
                  [IdleSession EXCEPT !.pc = IF auth.ok THEN "find" ELSE "done",
                                      !.cookie = cookie, !.when = When(cookie, now),
                                      !.uid = auth.user_id,
                                      !.afterLogout = cookie \in loggedOut,
                                      !.status = IF auth.ok THEN 0 ELSE auth.resp.status,
                                      !.detail = IF auth.ok THEN "" ELSE auth.resp.detail]]
    /\ UNCHANGED <<jar, loggedOut>>
    /\ SessionFrame

\* find_one({"_id": ObjectId(user_id)}); ObjectId(...) raises on a string
\* that is no ObjectId, which the framework answers with 500.
get_current_user_find(r) ==
    /\ sreq[r].pc = "find"
    /\ LET user_id == sreq[r].uid IN
       sreq' = [sreq EXCEPT ![r] =
                  IF user_id < 1
                  THEN [@ EXCEPT !.pc = "done", !.status = 500,
                                 !.detail = "Internal Server Error"]
                  ELSE IF user_id \notin DOMAIN users
                  THEN [@ EXCEPT !.pc = "done", !.status = 404, !.detail = "User not found"]
                  ELSE [@ EXCEPT !.pc = "done", !.status = 200, !.user = users[user_id]]]
    /\ UNCHANGED <<jar, loggedOut>>
    /\ SessionFrame

\* POST /auth/logout: response.delete_cookie("access_token"); the client
\* drops the cookie it holds.  loggedOut remembers the dropped tokens.
logout ==
    /\ jar.kind = "token"
    /\ jar' = NoCookie
    /\ loggedOut' = loggedOut \cup {jar}
    /\ UNCHANGED sreq
    /\ SessionFrame

TickSession == Tick(MaxSessionClock)

---------------------------------------------------------------------------
(* Tailored resumes: POST /tailor, GET /tailored-resumes,                  *)
(* GET /tailored-resumes/{id}/pdf, GET /health (api.py, run_tailor.py)     *)
(*                                                                         *)
(* The service runs one event loop (uvicorn.run(app)).  `loop` is the      *)
(* request that holds it inside a call that does not await; a coroutine    *)
(* starts or resumes only when the loop is free.                           *)

Free == "free"

\* Request bodies of POST /tailor: resume.base64 absent, decodable, or not.
Base64s == {"none", "good", "bad"}
JobLinks == {"j1"}

\* What run_tailor_pipeline does once called: it returns, crew.kickoff
\* raises, the output is no TailoredResume JSON, or resume_to_pdf raises.
Outcomes == {"ok", "kickoff_raises", "bad_json", "render_raises"}
Pdfs == {"pdf1", "pdf2"}
Filenames == {"f1"}

\* b64_to_bytes: base64.b64decode raises on an undecodable string.
b64_to_bytes_ok(data) == data # "bad"

\* base64.b64encode(pdf_bytes).decode("utf-8")
B64Encode(bytes) == <<"base64", bytes>>

\* Mutant: the stored value wraps the base64 text instead of the bytes.
Binary_OfBase64(bytes) == <<"Binary", B64Encode(bytes)>>

\* bson Binary(pdf_bytes), the stored form of the bytes
Binary(bytes) == <<"Binary", bytes>>

\* bytes(doc["pdfData"])
BytesOf(data) == IF data[1] = "Binary" THEN data[2] ELSE data

\* URL paths /root/id/leaf; leaf "" when the path has two segments.
Path(root, id, leaf) == [root |-> root, id |-> id, leaf |-> leaf]
NoPath == Path("", 0, "")

\* "pdfUrl": f"/resumes/{inserted.inserted_id}/pdf"
PdfUrl(id) == Path("resumes", id, "pdf")

TailoredPdfPath(id) == Path("tailored-resumes", id, "pdf")

\* The GET routes with a path parameter that the application registers; a
\* path parameter matches one segment.
Route(path) ==
    IF path.root = "tailored-resumes" /\ path.leaf = "pdf" THEN "get_tailored_resume_pdf"
    ELSE IF path.root = "resumes" /\ path.leaf = "" THEN "get_resume"
    ELSE "none"

Tids == 0..MaxArtifacts

FetchPaths == {PdfUrl(k) : k \in Tids} \cup {TailoredPdfPath(k) : k \in Tids}

NoTailorResp ==
    [status |-> 0, detail |-> "", id |-> 0, filename |-> None, pdfBase64 |-> None,
     pdfUrl |-> NoPath, items |-> <<>>, body |-> None]

TailorErr(status, detail) == [NoTailorResp EXCEPT !.status = status, !.detail = detail]

\* who: the user the presented cookie belongs to; kicks: calls of
\* crew.kickoff; ins: documents inserted; outcome: how the pipeline ended.
IdleTailor ==
    [op |-> "none", pc |-> "idle", uid |-> NoUser, who |-> NoUser, path |-> NoPath,
     jobLink |-> None, outcome |-> "none", pdf |-> None, filename |-> None, t |-> 0,
     kicks |-> 0, ins |-> 0, resp |-> NoTailorResp]

TailorSlotBefore(q, r) == q = "t1" /\ r = "t2"

TailorFrame ==
    UNCHANGED <<now, users, uniqueIdx, resumes, req, lreq, sreq, jar, minted, loggedOut,
                startup, render>>

\* A request arrives and its handler starts on the event loop.
TailorArrives(r) ==
    /\ loop = Free
    /\ treq[r].pc = "idle"
    /\ \A q \in TReqs : TailorSlotBefore(q, r) => treq[q].pc # "idle"
    /\ ncalls < MaxTailorCalls
    /\ ncalls' = ncalls + 1

\* POST /tailor up to the call of run_tailor_pipeline, in which the handler
\* keeps the event loop (the call is not awaited).
tailor_call(r, cookie, b64, jobLink) ==
    /\ TailorArrives(r)
    /\ LET auth == get_current_user_id(cookie, now)
           started == [IdleTailor EXCEPT !.op = "tailor", !.who = cookie.sub]
       IN IF ~auth.ok
          THEN /\ treq' = [treq EXCEPT ![r] =
                             [started EXCEPT !.pc = "done",
                                             !.resp = TailorErr(401, auth.resp.detail)]]
               /\ loop' = loop
          ELSE IF ~b64_to_bytes_ok(b64)
          THEN /\ treq' = [treq EXCEPT ![r] =
                             [started EXCEPT !.pc = "done", !.uid = auth.user_id,
                                             !.resp = TailorErr(500, "Internal Server Error")]]
               /\ loop' = loop
          ELSE /\ treq' = [treq EXCEPT ![r] =
                             [started EXCEPT !.pc = "pipeline", !.uid = auth.user_id,
                                             !.jobLink = jobLink, !.kicks = 1]]
               /\ loop' = r
    /\ UNCHANGED tailored
    /\ TailorFrame

\* Mutant: the document is stored before the pipeline's outcome is looked at.
PersistWhen_Always(outcome) == TRUE

\* The handler reaches insert_one only when run_tailor_pipeline returned.
PersistWhen(outcome) == outcome = "ok"

\* run_tailor_pipeline returns or raises; on return the handler builds doc
\* (createdAt = datetime.utcnow()) and awaits insert_one.
tailor_pipeline_returns(r) ==
    /\ treq[r].op = "tailor" /\ treq[r].pc = "pipeline"
    /\ loop = r
    /\ loop' = Free
    /\ \E outcome \in Outcomes, pdf_bytes \in Pdfs, filename \in Filenames :
          treq' = [treq EXCEPT ![r] =
                     IF PersistWhen(outcome)
                     THEN [@ EXCEPT !.pc = "insert", !.outcome = outcome, !.pdf = pdf_bytes,
                                    !.filename = filename, !.t = now]
                     ELSE [@ EXCEPT !.pc = "done", !.outcome = outcome,
                                    !.resp = TailorErr(500, "Internal Server Error")]]
    /\ UNCHANGED <<tailored, ncalls>>
    /\ TailorFrame

\* insert_one(doc), then the response
tailor_insert(r) ==
    /\ treq[r].op = "tailor" /\ treq[r].pc = "insert"
    /\ loop = Free
    /\ Len(tailored) < MaxArtifacts
    /\ LET doc == [user_id |-> treq[r].uid, filename |-> treq[r].filename,
                   mime |-> "application/pdf", pdfData |-> Binary(treq[r].pdf),
                   jobLink |-> treq[r].jobLink, createdAt |-> treq[r].t]
           id == Len(tailored) + 1
       IN /\ tailored' = Append(tailored, doc)
          /\ treq' = [treq EXCEPT ![r].pc = "done", ![r].ins = @ + 1, ![r].t = 0,
                                  ![r].resp = [NoTailorResp EXCEPT
                                                 !.status = 200, !.id = id,
                                                 !.filename = treq[r].filename,
                                                 !.pdfBase64 = B64Encode(treq[r].pdf),
                                                 !.pdfUrl = PdfUrl(id)]]
    /\ UNCHANGED <<loop, ncalls>>
    /\ TailorFrame

\* GET /tailored-resumes
list_tailored_resumes_call(r, cookie) ==
    /\ TailorArrives(r)
    /\ LET auth == get_current_user_id(cookie, now)
           started == [IdleTailor EXCEPT !.op = "list", !.who = cookie.sub]
       IN treq' = [treq EXCEPT ![r] =
                     IF auth.ok
                     THEN [started EXCEPT !.pc = "find", !.uid = auth.user_id]
                     ELSE [started EXCEPT !.pc = "done",
                                          !.resp = TailorErr(401, auth.resp.detail)]]
    /\ UNCHANGED <<tailored, loop>>
    /\ TailorFrame

ListTailoredFilter(k, uid) == tailored[k].user_id = uid

\* find(...).sort("createdAt", -1)
SortedByCreatedAt(S) ==
    {s \in [1..Cardinality(S) -> S] :
        /\ \A i, j \in 1..Cardinality(S) : i # j => s[i] # s[j]
        /\ \A i, j \in 1..Cardinality(S) :
              i < j => tailored[s[i]].createdAt >= tailored[s[j]].createdAt}

TailoredListItem(k) ==
    [id |-> k, filename |-> tailored[k].filename, jobLink |-> tailored[k].jobLink,
     createdAt |-> tailored[k].createdAt]

list_tailored_resumes_find(r) ==
    /\ treq[r].op = "list" /\ treq[r].pc = "find"
    /\ loop = Free
    /\ \E s \in SortedByCreatedAt({k \in DOMAIN tailored : ListTailoredFilter(k, treq[r].uid)}) :
          treq' = [treq EXCEPT ![r].pc = "done",
                               ![r].resp = [NoTailorResp EXCEPT
                                              !.status = 200,
                                              !.items = [i \in DOMAIN s |-> TailoredListItem(s[i])]]]
    /\ UNCHANGED <<tailored, loop, ncalls>>
    /\ TailorFrame

\* GET on a path: the router picks the handler; without a matching route
\* the framework answers 404 "Not Found" and runs no dependency.
\* get_tailored_resume_pdf up to its find_one.
get_path_call(r, cookie, path) ==
    /\ TailorArrives(r)
    /\ LET auth == get_current_user_id(cookie, now)
           started == [IdleTailor EXCEPT !.op = "get", !.who = cookie.sub, !.path = path]
       IN treq' = [treq EXCEPT ![r] =
                     IF Route(path) # "get_tailored_resume_pdf"
                     THEN [started EXCEPT !.pc = "done", !.resp = TailorErr(404, "Not Found")]
                     ELSE IF ~auth.ok
                     THEN [started EXCEPT !.pc = "done",
                                          !.resp = TailorErr(401, auth.resp.detail)]
                     ELSE IF ~ObjectId_is_valid(path.id)
                     THEN [started EXCEPT !.pc = "done", !.uid = auth.user_id,
                                          !.resp = TailorErr(400, "Invalid resume ID")]
                     ELSE [started EXCEPT !.pc = "find", !.uid = auth.user_id]]
    /\ UNCHANGED <<tailored, loop>>
    /\ TailorFrame

\* Mutant: the lookup without "user_id": user_id.
TailoredFilter_NoOwner(k, id, uid) == k = id

TailoredFilter(k, id, uid) == k = id /\ tailored[k].user_id = uid

get_tailored_resume_pdf_find(r) ==
    /\ treq[r].op = "get" /\ treq[r].pc = "find"
    /\ loop = Free
    /\ LET id == treq[r].path.id
           found == \E k \in DOMAIN tailored : TailoredFilter(k, id, treq[r].uid)
       IN treq' = [treq EXCEPT ![r].pc = "done",
                               ![r].resp = IF found
                                           THEN [NoTailorResp EXCEPT
                                                   !.status = 200, !.id = id,
                                                   !.filename = tailored[id].filename,
                                                   !.body = BytesOf(tailored[id].pdfData)]
                                           ELSE TailorErr(404, "Tailored resume not found")]
    /\ UNCHANGED <<tailored, loop, ncalls>>
    /\ TailorFrame

\* GET /health: no await, the handler runs to its response in one piece.
health_check(r) ==
    /\ TailorArrives(r)
    /\ treq' = [treq EXCEPT ![r] =
                  [IdleTailor EXCEPT !.op = "health", !.pc = "done",
                                     !.resp = TailorErr(200, "healthy")]]
    /\ UNCHANGED <<tailored, loop>>
    /\ TailorFrame

TailorRetire(r) ==
    /\ treq[r].pc = "done"
    /\ treq' = [treq EXCEPT ![r] = IdleTailor]
    /\ UNCHANGED <<tailored, loop, ncalls>>
    /\ TailorFrame

\* Time passes also while the event loop is held.
TickTailor == Tick(MaxClock)

---------------------------------------------------------------------------
(* Startup: connect_to_mongo and create_indexes (db.py), run by the        *)
(* application's startup event (api.py)                                    *)

\* The indexes create_indexes asks for, in its order.
Indexes == <<"users.google_sub unique", "users.email",
             "resumes.user_id+is_deleted", "resumes.date_uploaded">>

\* pc: "connect", "indexes", "serving" (the startup event returned) or
\* "failed" (it raised; the server exits); created: how many of Indexes
\* exist; index_error: a create_index call raised.
Booting == [pc |-> "connect", created |-> 0, index_error |-> FALSE]

\* The service once it serves, with or without its indexes.
Started(unique) ==
    [pc |-> "serving", created |-> IF unique THEN Len(Indexes) ELSE 0,
     index_error |-> ~unique]

ConnectOutcomes == {"ok", "no MONGO_URI", "ping fails"}

StartupFrame ==
    UNCHANGED <<now, users, resumes, req, ncalls, lreq, sreq, jar, minted, loggedOut,
                tailored, treq, loop, render>>

\* connect_to_mongo up to create_indexes: a missing MONGO_URI and a failed
\* ping are re-raised.
connect_to_mongo(outcome) ==
    /\ startup.pc = "connect"
    /\ startup' = [startup EXCEPT !.pc = IF outcome = "ok" THEN "indexes" ELSE "failed"]
    /\ UNCHANGED uniqueIdx
    /\ StartupFrame

\* One create_index call of create_indexes.  When it raises, the except
\* clause prints the error, the remaining calls are skipped and
\* connect_to_mongo goes on to return.
create_indexes(raises) ==
    /\ startup.pc = "indexes"
    /\ IF raises
       THEN /\ startup' = [startup EXCEPT !.pc = "serving", !.index_error = TRUE]
            /\ UNCHANGED uniqueIdx
       ELSE /\ startup' = [startup EXCEPT
                             !.created = @ + 1,
                             !.pc = IF startup.created + 1 = Len(Indexes)
                                    THEN "serving" ELSE "indexes"]
            /\ uniqueIdx' = TRUE
    /\ StartupFrame

Serving == startup.pc = "serving"

---------------------------------------------------------------------------
(* Rendering: the order of the sections in resume_to_pdf (run_tailor.py)   *)

MaxSections == 3

Titles == {"Education", "EDUCATION", "Experience", "Projects", "Skills", "Awards"}

\* str.lower and str.upper on the titles of the model
Lower(title) ==
    CASE title \in {"Education", "EDUCATION"} -> "education"
      [] title = "Experience" -> "experience"
      [] title = "Projects" -> "projects"
      [] title = "Skills" -> "skills"
      [] title = "Awards" -> "awards"

Upper(title) ==
    CASE title \in {"Education", "EDUCATION"} -> "EDUCATION"
      [] title = "Experience" -> "EXPERIENCE"
      [] title = "Projects" -> "PROJECTS"
      [] title = "Skills" -> "SKILLS"
      [] title = "Awards" -> "AWARDS"

\* The items of a section: none, or one of two different contents
ItemLists == {<<>>, <<"i1">>, <<"i2">>}

\* A section is a dict; two dicts with the same keys and values are equal.
Sections == [title : Titles, items : ItemLists]

SectionLists == UNION {[1..n -> Sections] : n \in 0..MaxSections}

\* pc: "idle" (nothing is being rendered), "start", "known" (the loop over
\* the three keys is done), "ordered" (ordered_sections is complete), "built".
NoRender == [pc |-> "idle", sections |-> <<>>, ordered_sections |-> <<>>, story |-> <<>>]

Keys == <<"Education", "Experience", "Projects">>

NoSection == [title |-> None, items |-> <<>>]

\* The first section whose lower-cased title is the lower-cased key, or None.
find_section(sections, title) ==
    LET hits == {i \in DOMAIN sections : Lower(sections[i].title) = Lower(title)}
    IN IF hits = {} THEN NoSection
       ELSE sections[CHOOSE i \in hits : \A j \in hits : i <= j]

\* `s in ordered_sections`: list membership compares with ==.
Contains(list, s) == \E i \in DOMAIN list : list[i] = s

RECURSIVE PlaceKnown(_, _, _)
PlaceKnown(sections, k, ordered) ==
    IF k > Len(Keys) THEN ordered
    ELSE LET s == find_section(sections, Keys[k])
         IN PlaceKnown(sections, k + 1,
                       IF s # NoSection THEN Append(ordered, s) ELSE ordered)

RECURSIVE PlaceRest(_, _, _)
PlaceRest(sections, i, ordered) ==
    IF i > Len(sections) THEN ordered
    ELSE PlaceRest(sections, i + 1,
                   IF ~Contains(ordered, sections[i]) THEN Append(ordered, sections[i])
                   ELSE ordered)

\* What the story holds of a rendered section: its heading and its items.
Rendered(section) == [heading |-> Upper(section.title), items |-> section.items]

RECURSIVE BuildStory(_, _, _)
BuildStory(ordered, i, story) ==
    IF i > Len(ordered) THEN story
    ELSE BuildStory(ordered, i + 1,
                    IF ordered[i].items = <<>> THEN story
                    ELSE Append(story, Rendered(ordered[i])))

RenderFrame ==
    UNCHANGED <<now, users, uniqueIdx, resumes, req, ncalls, lreq, sreq, jar, minted,
                loggedOut, tailored, treq, loop, startup>>

\* for key in ("Education", "Experience", "Projects")
resume_to_pdf_known ==
    /\ render.pc = "start"
    /\ render' = [render EXCEPT !.pc = "known",
                                !.ordered_sections = PlaceKnown(render.sections, 1, <<>>)]
    /\ RenderFrame

\* for s in sections: if s not in ordered_sections
resume_to_pdf_rest ==
    /\ render.pc = "known"
    /\ render' = [render EXCEPT !.pc = "ordered",
                                !.ordered_sections =
                                    PlaceRest(render.sections, 1, render.ordered_sections)]
    /\ RenderFrame

\* for section in ordered_sections
resume_to_pdf_story ==
    /\ render.pc = "ordered"
    /\ render' = [render EXCEPT !.pc = "built",
                                !.story = BuildStory(render.ordered_sections, 1, <<>>)]
    /\ RenderFrame

---------------------------------------------------------------------------
(* Specifications *)

Init ==
    /\ now = 0
    /\ users = TwoUsers
    /\ uniqueIdx = TRUE
    /\ resumes = <<>>
    /\ req = [r \in Reqs |-> IdleReq]
    /\ ncalls = 0
    /\ lreq = [r \in LReqs |-> IdleLogin]
    /\ sreq = [r \in SReqs |-> IdleSession]
    /\ jar = NoCookie
    /\ minted = {}
    /\ loggedOut = {}
    /\ tailored = <<>>
    /\ treq = [r \in TReqs |-> IdleTailor]
    /\ loop = Free
    /\ startup = Started(uniqueIdx)
    /\ render = NoRender

Next ==
    \/ TickResume
    \/ \E r \in Reqs : create_resume_call(r)
    \/ \E r \in Reqs : create_resume_insert(r)
    \/ \E r \in Reqs : list_resumes_call(r)
    \/ \E r \in Reqs : list_resumes_find(r)
    \/ \E r \in Reqs : get_resume_call(r)
    \/ \E r \in Reqs : get_resume_find(r)
    \/ \E r \in Reqs : update_resume_call(r)
    \/ \E r \in Reqs : update_resume_find(r)
    \/ \E r \in Reqs : update_resume_write(r)
    \/ \E r \in Reqs : update_resume_readback(r)
    \/ \E r \in Reqs : delete_resume_call(r)
    \/ \E r \in Reqs : delete_resume_find(r)
    \/ \E r \in Reqs : delete_resume_write(r)
    \/ \E r \in Reqs : Retire(r)

Spec == Init /\ [][Next]_vars

InitLogin ==
    /\ now = 0
    /\ users = <<>>
    /\ uniqueIdx \in BOOLEAN
    /\ resumes = <<>>
    /\ req = [r \in Reqs |-> IdleReq]
    /\ ncalls = 0
    /\ lreq = [r \in LReqs |-> IdleLogin]
    /\ sreq = [r \in SReqs |-> IdleSession]
    /\ jar = NoCookie
    /\ minted = {}
    /\ loggedOut = {}
    /\ tailored = <<>>
    /\ treq = [r \in TReqs |-> IdleTailor]
    /\ loop = Free
    /\ startup = Started(uniqueIdx)
    /\ render = NoRender

LoginSteps(sequential) ==
    \/ TickLogin
    \/ \E r \in LReqs, g \in GoogleTokens : google_login_call(r, g, sequential, MaxLogins)
    \/ \E r \in LReqs : google_login_find(r)
    \/ \E r \in LReqs : google_login_update(r)
    \/ \E r \in LReqs : google_login_insert(r)
    \/ \E r \in LReqs : LoginRetire(r)

NextLogin == LoginSteps(FALSE)

NextLoginSeq == LoginSteps(TRUE)

\* Logins in any interleaving
SpecLogin == InitLogin /\ [][NextLogin]_vars

\* Logins one at a time
SpecLoginSeq == InitLogin /\ [][NextLoginSeq]_vars


\* A store with one user, who logged in at hour 0; a client that logs in,
\* calls /auth/me and logs out
InitSession ==
    /\ now = 0
    /\ users = <<UserDoc("g1", "e1", 0, 0)>>
    /\ uniqueIdx = TRUE
    /\ resumes = <<>>
    /\ req = [r \in Reqs |-> IdleReq]
    /\ ncalls = 0
    /\ lreq = [r \in LReqs |-> IdleLogin]
    /\ sreq = [r \in SReqs |-> IdleSession]
    /\ jar = NoCookie
    /\ minted = {}
    /\ loggedOut = {}
    /\ tailored = <<>>
    /\ treq = [r \in TReqs |-> IdleTailor]
    /\ loop = Free
    /\ startup = Started(uniqueIdx)
    /\ render = NoRender

SessionGoogleTokens == {GoogleToken("g1", "e1"), GoogleToken("g2", "e2"), BadGoogleToken}

NextSession ==
    \/ TickSession
    \/ \E g \in SessionGoogleTokens : google_login_call("l1", g, TRUE, MaxSessionLogins)
    \/ google_login_find("l1")
    \/ google_login_update("l1")
    \/ google_login_insert("l1")
    \/ LoginRetire("l1")
    \/ \E r \in SReqs, c \in PresentableCookies : get_current_user_call(r, c)
    \/ \E r \in SReqs : get_current_user_find(r)
    \/ logout

SpecSession == InitSession /\ [][NextSession]_vars

\* The tailor routes, called by two users
InitTailor == Init

TailorCookies == ResumeCookies

NextTailor ==
    \/ TickTailor
    \/ \E r \in TReqs, c \in TailorCookies, b \in Base64s, j \in JobLinks : tailor_call(r, c, b, j)
    \/ \E r \in TReqs : tailor_pipeline_returns(r)
    \/ \E r \in TReqs : tailor_insert(r)
    \/ \E r \in TReqs, c \in TailorCookies : list_tailored_resumes_call(r, c)
    \/ \E r \in TReqs : list_tailored_resumes_find(r)
    \/ \E r \in TReqs, c \in TailorCookies, p \in FetchPaths : get_path_call(r, c, p)
    \/ \E r \in TReqs : get_tailored_resume_pdf_find(r)
    \/ \E r \in TReqs : health_check(r)
    \/ \E r \in TReqs : TailorRetire(r)

SpecTailor == InitTailor /\ [][NextTailor]_vars

\* The routes addressed by id, on a store that holds one resume and one
\* artifact of user 1
InitById ==
    /\ now = 0
    /\ users = TwoUsers
    /\ uniqueIdx = TRUE
    /\ resumes = <<[user_id |-> 1, target_role |-> "r1", content |-> "c1",
                    date_uploaded |-> 0, updated_at |-> 0, is_deleted |-> FALSE]>>
    /\ req = [r \in Reqs |-> IdleReq]
    /\ ncalls = 0
    /\ lreq = [r \in LReqs |-> IdleLogin]
    /\ sreq = [r \in SReqs |-> IdleSession]
    /\ jar = NoCookie
    /\ minted = {}
    /\ loggedOut = {}
    /\ tailored = <<[user_id |-> 1, filename |-> "f1", mime |-> "application/pdf",
                     pdfData |-> Binary("pdf1"), jobLink |-> "j1", createdAt |-> 0]>>
    /\ treq = [r \in TReqs |-> IdleTailor]
    /\ loop = Free
    /\ startup = Started(uniqueIdx)
    /\ render = NoRender

NextById ==
    \/ TickResume
    \/ \E r \in Reqs : get_resume_call(r)
    \/ \E r \in Reqs : get_resume_find(r)
    \/ \E r \in Reqs : update_resume_call(r)
    \/ \E r \in Reqs : update_resume_find(r)
    \/ \E r \in Reqs : update_resume_write(r)
    \/ \E r \in Reqs : update_resume_readback(r)
    \/ \E r \in Reqs : delete_resume_call(r)
    \/ \E r \in Reqs : delete_resume_find(r)
    \/ \E r \in Reqs : delete_resume_write(r)
    \/ \E r \in Reqs : Retire(r)
    \/ \E r \in TReqs, c \in TailorCookies, k \in Tids : get_path_call(r, c, TailoredPdfPath(k))
    \/ \E r \in TReqs : get_tailored_resume_pdf_find(r)
    \/ \E r \in TReqs : TailorRetire(r)

SpecById == InitById /\ [][NextById]_vars

\* resume_to_pdf on every list of at most MaxSections sections
InitRender ==
    /\ now = 0
    /\ users = TwoUsers
    /\ uniqueIdx = TRUE
    /\ resumes = <<>>
    /\ req = [r \in Reqs |-> IdleReq]
    /\ ncalls = 0
    /\ lreq = [r \in LReqs |-> IdleLogin]
    /\ sreq = [r \in SReqs |-> IdleSession]
    /\ jar = NoCookie
    /\ minted = {}
    /\ loggedOut = {}
    /\ tailored = <<>>
    /\ treq = [r \in TReqs |-> IdleTailor]
    /\ loop = Free
    /\ startup = Started(uniqueIdx)
    /\ render \in {[NoRender EXCEPT !.pc = "start", !.sections = ss] : ss \in SectionLists}

NextRender ==
    \/ resume_to_pdf_known
    \/ resume_to_pdf_rest
    \/ resume_to_pdf_story

SpecRender == InitRender /\ [][NextRender]_vars

\* The process from its start: the startup event, then logins
InitStartup ==
    /\ now = 0
    /\ users = <<>>
    /\ uniqueIdx = FALSE
    /\ resumes = <<>>
    /\ req = [r \in Reqs |-> IdleReq]
    /\ ncalls = 0
    /\ lreq = [r \in LReqs |-> IdleLogin]
    /\ sreq = [r \in SReqs |-> IdleSession]
    /\ jar = NoCookie
    /\ minted = {}
    /\ loggedOut = {}
    /\ tailored = <<>>
    /\ treq = [r \in TReqs |-> IdleTailor]
    /\ loop = Free
    /\ startup = Booting
    /\ render = NoRender

NextStartup ==
    \/ \E outcome \in ConnectOutcomes : connect_to_mongo(outcome)
    \/ \E raises \in BOOLEAN : create_indexes(raises)
    \/ (Serving /\ NextLoginSeq)

SpecStartup == InitStartup /\ [][NextStartup]_vars

---------------------------------------------------------------------------
(* Properties of the resume routes, checked under Spec *)

NotFound == Err(404, "Resume not found")

Done(r) == req[r].pc = "done"

ById(r) == req[r].op \in {"get", "update", "delete"}

\* C1: Resume ownership isolation.  A list response of user B holds no resume
\* of another user; get, update and delete by B on the id of a resume owned
\* by another user answer 404 "Resume not found"; and a stored resume is
\* changed only by a step of a request of its owner addressed to its id.
C1_Responses ==
    \A r \in Reqs :
        Done(r) /\ req[r].uid # NoUser =>
            /\ req[r].op = "list" =>
                  \A i \in DOMAIN req[r].resp.items :
                      resumes[req[r].resp.items[i].id].user_id = req[r].uid
            /\ (ById(r) /\ Exists(req[r].rid) /\ resumes[req[r].rid].user_id # req[r].uid)
                  => req[r].resp = NotFound

C1_NoForeignWrite ==
    \A k \in DOMAIN resumes :
        resumes'[k] # resumes[k] =>
            \E r \in Reqs : /\ req[r].uid = resumes[k].user_id
                            /\ req[r].rid = k
                            /\ req'[r] # req[r]

C1_OwnershipIsolation == [](C1_Responses) /\ [][C1_NoForeignWrite]_vars

\* Another user's update and delete on an existing, not deleted resume have
\* both been answered.
C1_Witness ==
    \E r1, r2 \in Reqs :
        /\ Done(r1) /\ req[r1].op = "update" /\ req[r1].case = "foreign"
        /\ Done(r2) /\ req[r2].op = "delete" /\ req[r2].case = "foreign"
        /\ req[r1].rid = req[r2].rid
        /\ ~resumes[req[r1].rid].is_deleted

\* C2: Soft delete.  A get that starts when the resume is already deleted
\* answers 404 and a list that starts then does not contain it; a resume
\* whose delete was answered with success is in storage with is_deleted =
\* TRUE; and no step removes a stored resume or sets is_deleted back to FALSE.
C2_Responses ==
    \A r \in Reqs :
        Done(r) /\ req[r].uid # NoUser =>
            /\ (req[r].op = "get" /\ req[r].delAtStart # {}) => req[r].resp = NotFound
            /\ req[r].op = "list" =>
                  \A i \in DOMAIN req[r].resp.items :
                      req[r].resp.items[i].id \notin req[r].delAtStart
            /\ (req[r].op = "delete" /\ req[r].resp.status = 200) =>
                  Exists(req[r].rid) /\ resumes[req[r].rid].is_deleted

C2_NeverUndeleted ==
    \A k \in DOMAIN resumes :
        /\ k \in DOMAIN resumes'
        /\ resumes[k].is_deleted => resumes'[k].is_deleted

C2_SoftDelete == [](C2_Responses) /\ [][C2_NeverUndeleted]_vars

\* The owner's delete succeeded and the owner's later get was answered.
C2_Witness ==
    \E r1, r2 \in Reqs :
        /\ Done(r1) /\ req[r1].op = "delete" /\ req[r1].resp.status = 200
        /\ Done(r2) /\ req[r2].op = "get" /\ req[r2].rid = req[r1].rid
        /\ req[r2].uid = req[r1].uid
        /\ req[r2].delAtStart = {req[r1].rid}
        /\ resumes[req[r1].rid].is_deleted

\* C3: NotFound indistinguishability.  Any two answered get / update / delete
\* requests with a well-formed id whose lookup met no record, a record of
\* another user or a soft-deleted record carry the same response, a 404.
Hidden(r) ==
    /\ Done(r) /\ ById(r)
    /\ req[r].case \in {"absent", "foreign", "deleted"}

C10_UpdatedAtMonotone ==
    [][\A k \in DOMAIN resumes :
          resumes'[k].updated_at >= resumes[k].updated_at]_vars

---------------------------------------------------------------------------
(* Properties of login, checked under SpecLoginSeq and SpecLogin *)

WithSub(us, sub) == {i \in DOMAIN us : us[i].google_sub = sub}

LoggedIn(r) == lreq[r].pc = "done" /\ lreq[r].status = 200

\* C4: Sequential login uniqueness.  With logins one at a time: there is at
\* most one user record per external subject identifier; every answered
\* login with a valid Google token succeeded and returned the id of the
\* record of its subject, so two logins of one subject returned the same id;
\* and a step changes the users either by appending one record of a subject
\* not yet stored, or by changing last_login_at of one record and nothing else.
C4_OnePerSub ==
    /\ \A sub \in Subs : Cardinality(WithSub(users, sub)) <= 1
    /\ \A r \in LReqs :
          (lreq[r].pc = "done" /\ lreq[r].sub # None) =>
              /\ lreq[r].status = 200
              /\ lreq[r].id \in WithSub(users, lreq[r].sub)
    /\ \A r1, r2 \in LReqs :
          (LoggedIn(r1) /\ LoggedIn(r2) /\ lreq[r1].sub = lreq[r2].sub)
              => lreq[r1].id = lreq[r2].id

C4_UsersStep ==
    users' # users =>
        \/ /\ Len(users') = Len(users) + 1
           /\ \A i \in DOMAIN users : users'[i] = users[i]
           /\ WithSub(users, users'[Len(users')].google_sub) = {}
           /\ users'[Len(users')].created_at = users'[Len(users')].last_login_at
        \/ /\ Len(users') = Len(users)
           /\ \E i \in DOMAIN users :
                 /\ \A j \in DOMAIN users : j # i => users'[j] = users[j]
                 /\ users'[i] = [users[i] EXCEPT !.last_login_at = users'[i].last_login_at]

C4_SequentialLoginUniqueness == [](C4_OnePerSub) /\ [][C4_UsersStep]_vars

\* Two logins of one subject, the later one with another email and at a later
\* hour, were answered with the same id; the one record was only touched in
\* last_login_at.
C4_Witness ==
    \E r1, r2 \in LReqs :
        /\ r1 # r2 /\ LoggedIn(r1) /\ LoggedIn(r2)
        /\ lreq[r1].sub = lreq[r2].sub /\ lreq[r1].email # lreq[r2].email
        /\ lreq[r1].id = lreq[r2].id
        /\ Cardinality(WithSub(users, lreq[r1].sub)) = 1
        /\ users[lreq[r1].id].email = lreq[r1].email
        /\ users[lreq[r1].id].created_at < users[lreq[r1].id].last_login_at

\* C5: Concurrent first logins.  In every interleaving of the find and insert
\* steps of concurrent logins, a store that enforces the unique index on
\* google_sub holds at most one user record per subject.
C5_UniqueUnderIndex ==
    uniqueIdx => \A sub \in Subs : Cardinality(WithSub(users, sub)) <= 1

\* Two logins of one never-seen subject both found no record; one inserted,
\* the insert of the other was refused by the index.
C5_Witness ==
    \E r1, r2 \in LReqs :
        /\ uniqueIdx
        /\ r1 # r2 /\ lreq[r1].sub = lreq[r2].sub
        /\ LoggedIn(r1) /\ lreq[r1].found = 0
        /\ lreq[r2].pc = "done" /\ lreq[r2].found = 0 /\ lreq[r2].status = 500
        /\ Cardinality(WithSub(users, lreq[r1].sub)) = 1

\* C5, second half: without the index, two records of one subject are
\* reachable (TLC finds this predicate violated under SpecLogin).
C5_NoDuplicateWithoutIndex ==
    ~uniqueIdx => \A sub \in Subs : Cardinality(WithSub(users, sub)) <= 1

---------------------------------------------------------------------------
(* Properties of sessions, checked under SpecSession *)

Verified(r) == sreq[r].pc # "idle"
Answered(r) == sreq[r].pc = "done"

Missing(c) == c.kind = "none"
Malformed(c) == c.kind = "token" /\ ~c.wf
BadlySigned(c) == c.kind = "token" /\ c.wf /\ c.sig # SECRET_KEY
WellSigned(c) == c.kind = "token" /\ c.wf /\ c.sig = SECRET_KEY

\* Expired as the specification defines it: the current time is not before
\* the expiry.
Expired(r) == WellSigned(sreq[r].cookie) /\ sreq[r].when \in {"at exp", "after exp"}

\* C6: Session verification is all-or-nothing (the claim as stated).  A
\* request is authenticated as u only if its cookie is a well-formed token
\* signed with SECRET_KEY, unexpired, with sub = u; a missing cookie, a
\* malformed, badly signed, expired or sub-less token gets 401 and no user id.
C6_AllOrNothing ==
    \A r \in SReqs :
        Verified(r) =>
            LET c == sreq[r].cookie
                valid == WellSigned(c) /\ ~Expired(r) /\ c.sub # NoUser
            IN /\ sreq[r].uid # NoUser => (valid /\ sreq[r].uid = c.sub)
               /\ ~valid => (sreq[r].status = 401 /\ sreq[r].uid = NoUser)

\* C7 (the claim as stated): requests with a missing cookie, a malformed
\* token, a badly signed token and an expired token all get 401, and two
\* such requests in a row get the same response.
Cause(r) ==
    \/ Missing(sreq[r].cookie) \/ Malformed(sreq[r].cookie)
    \/ BadlySigned(sreq[r].cookie) \/ Expired(r)

C7_SameResponse ==
    /\ [](\A r \in SReqs : (Answered(r) /\ Cause(r)) => sreq[r].status = 401)
    /\ [][\A r \in SReqs :
            (Answered(r) /\ Cause(r) /\ (Answered(r) /\ Cause(r))')
                => (sreq'[r].status = sreq[r].status /\ sreq'[r].detail = sreq[r].detail)]_vars

\* C7 (amended): a missing cookie gets 401 "Not authenticated"; a malformed
\* token, a badly signed token and a token whose expiry is before the hour of
\* verification get 401 with one and the same detail.
C7_GenericForInvalidTokens ==
    \A r \in SReqs :
        Verified(r) =>
            LET c == sreq[r].cookie IN
            /\ Missing(c) => (sreq[r].status = 401 /\ sreq[r].detail = "Not authenticated"
                              /\ sreq[r].uid = NoUser)
            /\ (Malformed(c) \/ BadlySigned(c)
                  \/ (WellSigned(c) /\ sreq[r].when = "after exp"))
                 => /\ sreq[r].status = 401
                    /\ sreq[r].detail = "Invalid authentication credentials"
                    /\ sreq[r].uid = NoUser

\* A token minted by login was presented after its expiry and refused.
C7_Witness ==
    \E r \in SReqs :
        /\ Verified(r) /\ sreq[r].cookie \in minted
        /\ sreq[r].when = "after exp" /\ sreq[r].status = 401

\* C8: Session lifetime (the claim as stated).  A token minted by login holds
\* the user's id and the expiry mint hour + 24, the cookie's max-age is the
\* same 24 hours, and verification accepts the token exactly at the hours
\* strictly before its expiry.
C8_SessionLifetime ==
    /\ \A l \in LReqs :
          LoggedIn(l) =>
              /\ lreq[l].cookie.sub = lreq[l].id
              /\ lreq[l].cookie.exp = lreq[l].mint_t + AUTH_ACCESS_TOKEN_EXPIRE_HOURS
              /\ lreq[l].max_age = (lreq[l].cookie.exp - lreq[l].mint_t) * SecondsPerHour
    /\ \A r \in SReqs :
          (Verified(r) /\ sreq[r].cookie \in minted) =>
              /\ sreq[r].when = "before exp" => sreq[r].uid = sreq[r].cookie.sub
              /\ sreq[r].when \in {"at exp", "after exp"}
                    => (sreq[r].status = 401 /\ sreq[r].uid = NoUser)

\* C9: Logout does not revoke.  A step that logs out changes neither the
\* stored users and resumes nor the set of minted tokens, and a token that
\* was in the cookie jar at a logout, presented afterwards before its
\* expiry, still authenticates its user.
C9_StillAccepted ==
    \A r \in SReqs :
        (Verified(r) /\ sreq[r].afterLogout /\ sreq[r].when = "before exp") =>
            /\ sreq[r].uid = sreq[r].cookie.sub
            /\ sreq[r].status # 401

C9_LogoutStep ==
    loggedOut' # loggedOut => UNCHANGED <<users, resumes, uniqueIdx, minted>>

C9_LogoutDoesNotRevoke == [](C9_StillAccepted) /\ [][C9_LogoutStep]_vars

\* After the logout, /auth/me with the logged-out token answered 200.
C9_Witness ==
    \E r \in SReqs :
        /\ sreq[r].pc = "done" /\ sreq[r].afterLogout
        /\ sreq[r].status = 200 /\ jar = NoCookie
        /\ sreq[r].user = users[sreq[r].cookie.sub]

---------------------------------------------------------------------------
(* Properties of update, delete and list, checked under Spec *)

UpdateWrites(r) ==
    req[r].op = "update" /\ req[r].pc = "write" /\ req'[r].pc = "readback"

UpdateReturns(r) ==
    req[r].op = "update" /\ req[r].pc = "readback" /\ req'[r].pc = "done"

\* The write of an update sets target_role and content when the request
\* carries them, sets updated_at to the time the handler read, and changes
\* nothing else in the store.
C11_WriteStep ==
    \A r \in Reqs :
        UpdateWrites(r) =>
            LET rid == req[r].rid
                old == resumes[rid]
                new == resumes'[rid]
            IN /\ DOMAIN resumes' = DOMAIN resumes
               /\ \A k \in DOMAIN resumes : k # rid => resumes'[k] = resumes[k]
               /\ new.target_role = IF req[r].role # None THEN req[r].role ELSE old.target_role
               /\ new.content = IF req[r].content # None THEN req[r].content ELSE old.content
               /\ new.updated_at = req[r].t
               /\ new.user_id = old.user_id
               /\ new.date_uploaded = old.date_uploaded
               /\ new.is_deleted = old.is_deleted

\* The response of an update is the stored record as it is read back after
\* the write.
C11_ReturnStep ==
    \A r \in Reqs :
        UpdateReturns(r) =>
            LET doc == resumes'[req[r].rid] IN
            /\ resumes' = resumes
            /\ req'[r].resp.status = 200
            /\ req'[r].resp.item =
                  [id |-> req[r].rid, target_role |-> doc.target_role,
                   content |-> doc.content, date_uploaded |-> doc.date_uploaded,
                   updated_at |-> doc.updated_at]

\* C11: Partial update.  A successful update changes exactly the fields among
\* target_role and content that the request carries, always sets updated_at,
\* leaves the absent fields, the owner, date_uploaded, is_deleted and all
\* other records unchanged, and returns the stored record after the write.
C11_PartialUpdate == [][C11_WriteStep /\ C11_ReturnStep]_vars

\* An update that carried only content has answered while a second resume
\* is stored: content is the new one, target_role is the one the resume was
\* created with.
C11_Witness ==
    \E r \in Reqs :
        /\ Len(resumes) = 2
        /\ Done(r) /\ req[r].op = "update" /\ req[r].resp.status = 200
        /\ req[r].role = None /\ req[r].content = "c2"
        /\ req[r].resp.item.content = "c2"
        /\ req[r].resp.item.target_role = "r1"
        /\ resumes[req[r].rid].content = "c2"

\* C12: Update respects the visibility predicate under interleaving.  An
\* update changes no record that is soft-deleted at the moment its write is
\* applied, and answers "Resume not found" when the record is soft-deleted at
\* the moment its final read is applied.
C12_UpdateStep ==
    \A r \in Reqs :
        /\ (UpdateWrites(r) /\ resumes[req[r].rid].is_deleted) => resumes' = resumes
        /\ (UpdateReturns(r) /\ resumes[req[r].rid].is_deleted) => req'[r].resp = NotFound

C12_UpdateRespectsVisibility == [][C12_UpdateStep]_vars

DeleteWrites(r) ==
    req[r].op = "delete" /\ req[r].pc = "write" /\ req'[r].pc = "done"

\* The write of a delete sets is_deleted and updated_at on the one record
\* and answers success.
C13_WriteStep ==
    \A r \in Reqs :
        DeleteWrites(r) =>
            LET rid == req[r].rid IN
            /\ DOMAIN resumes' = DOMAIN resumes
            /\ \A k \in DOMAIN resumes : k # rid => resumes'[k] = resumes[k]
            /\ resumes'[rid] = [resumes[rid] EXCEPT !.is_deleted = TRUE,
                                                    !.updated_at = req[r].t]
            /\ req'[r].resp.status = 200

\* A record is soft-deleted exactly from the step in which a delete of it
\* returns success, so a delete whose record is in delAtStart started after a
\* successful delete of that record had returned.  Such a delete is answered
\* "Resume not found" by its lookup and never reaches its write.
C13_SecondDelete ==
    \A r \in Reqs :
        (req[r].op = "delete" /\ req[r].rid \in req[r].delAtStart) =>
            /\ req[r].pc \in {"find", "done"}
            /\ Done(r) => req[r].resp = NotFound

\* A step of such a delete changes no record.
C13_SecondDeleteStep ==
    \A r \in Reqs :
        (req[r].op = "delete" /\ req[r].rid \in req[r].delAtStart /\ req'[r] # req[r])
            => resumes' = resumes

\* C13: Delete is once-only.  A successful delete sets is_deleted = true and
\* updated_at and changes nothing else; a delete by the owner that starts
\* after a successful delete of the same resume has returned answers
\* NotFound and changes nothing, updated_at included.
C13_DeleteOnceOnly ==
    [](C13_SecondDelete) /\ [][C13_WriteStep /\ C13_SecondDeleteStep]_vars

\* The owner's second delete of a resume has been answered; the record still
\* carries the updated_at that the first delete wrote at hour 0.
C13_Witness ==
    \E r \in Reqs :
        /\ Done(r) /\ req[r].op = "delete" /\ req[r].rid \in req[r].delAtStart
        /\ req[r].case = "deleted" /\ req[r].resp = NotFound
        /\ now = 1 /\ resumes[req[r].rid].updated_at = 0

ListReturns(r) ==
    req[r].op = "list" /\ req[r].pc = "find" /\ req'[r].pc = "done"

Ids(items) == {items[i].id : i \in DOMAIN items}

\* C14: List contents and order.  The answer of a list request holds exactly
\* the resumes that, when the query is applied, are owned by the caller and
\* not soft-deleted, each once, with their stored target_role, date_uploaded
\* and updated_at, in an order of non-increasing updated_at.
C14_ListStep ==
    \A r \in Reqs :
        ListReturns(r) =>
            LET items == req'[r].resp.items IN
            /\ req'[r].resp.status = 200
            /\ Ids(items) = {k \in DOMAIN resumes :
                                resumes[k].user_id = req[r].uid /\ ~resumes[k].is_deleted}
            /\ Len(items) = Cardinality(Ids(items))
            /\ \A i \in DOMAIN items :
                  /\ items[i].target_role = resumes[items[i].id].target_role
                  /\ items[i].date_uploaded = resumes[items[i].id].date_uploaded
                  /\ items[i].updated_at = resumes[items[i].id].updated_at
            /\ \A i, j \in DOMAIN items : i < j => items[i].updated_at >= items[j].updated_at

C14_ListContentsAndOrder == [][C14_ListStep]_vars

\* A list answer with two resumes of the caller in which the resume inserted
\* second, by the request that arrived first, comes last.
C14_Witness ==
    \E r \in Reqs :
        /\ Done(r) /\ req[r].op = "list" /\ req[r].resp.status = 200
        /\ Len(req[r].resp.items) = 2
        /\ req[r].resp.items[1].id = 1 /\ req[r].resp.items[2].id = 2
        /\ req[r].resp.items[1].updated_at = 1 /\ req[r].resp.items[2].updated_at = 0

---------------------------------------------------------------------------
(* Properties of the tailor routes, checked under SpecTailor *)

TailorDone(r) == treq[r].op = "tailor" /\ treq[r].pc = "done"

TailorInserts(r) ==
    treq[r].op = "tailor" /\ treq[r].pc = "insert" /\ treq'[r].pc = "done"

\* The pipeline is called at most once per request; a request that has
\* answered 200 saw the pipeline and the rendering succeed and inserted one
\* artifact; a request that has answered anything else inserted none.
C15_Requests ==
    \A r \in TReqs :
        /\ treq[r].kicks <= 1
        /\ treq[r].ins <= 1
        /\ treq[r].ins = 1 => (treq[r].outcome = "ok" /\ treq[r].kicks = 1)
        /\ TailorDone(r) =>
              /\ treq[r].resp.status \in {200, 401, 500}
              /\ (treq[r].resp.status = 200) = (treq[r].outcome = "ok")
              /\ (treq[r].resp.status = 200) = (treq[r].ins = 1)
              /\ treq[r].resp.status = 200 =>
                    /\ treq[r].resp.id \in DOMAIN tailored
                    /\ tailored[treq[r].resp.id].user_id = treq[r].uid
                    /\ treq[r].uid = treq[r].who

\* The artifact collection changes only by the insert of a tailor request
\* whose pipeline succeeded: one artifact of the requesting user is appended
\* and the artifacts already stored stay as they are.
C15_CollectionStep ==
    tailored' # tailored =>
        /\ Len(tailored') = Len(tailored) + 1
        /\ \A k \in DOMAIN tailored : tailored'[k] = tailored[k]
        /\ \E r \in TReqs :
              /\ TailorInserts(r)
              /\ treq[r].outcome = "ok"
              /\ treq'[r].ins = treq[r].ins + 1
              /\ tailored'[Len(tailored')].user_id = treq[r].uid
              /\ tailored'[Len(tailored')].pdfData = Binary(treq[r].pdf)

\* C15: Tailoring persists only after success, exactly once.  Each tailor
\* request calls the pipeline at most once and inserts exactly one artifact,
\* owned by the requesting user, if and only if the pipeline and the
\* rendering succeeded; a request in which decoding, the pipeline, parsing
\* or rendering fails ends in an error with the collection unchanged; a
\* stored artifact is never modified.
C15_PersistOnlyAfterSuccess == [](C15_Requests) /\ [][C15_CollectionStep]_vars

\* One tailor request has failed in the pipeline and another has stored its
\* artifact.
C15_Witness ==
    \E r, q \in TReqs :
        /\ TailorDone(r) /\ treq[r].outcome \in Outcomes \ {"ok"}
        /\ treq[r].resp.status = 500 /\ treq[r].kicks = 1 /\ treq[r].ins = 0
        /\ TailorDone(q) /\ treq[q].resp.status = 200 /\ treq[q].ins = 1
        /\ Len(tailored) = 1

\* C16: The tailor response's reference path is usable.  When a user's GET
\* on the pdfUrl of a successful tailor response of that user has been
\* answered, it was served by the artifact-retrieval route and the answer is
\* 200 with the bytes of the artifact whose id the tailor response carries.
C16_PdfUrlUsable ==
    \A q, r \in TReqs :
        (/\ TailorDone(q) /\ treq[q].resp.status = 200
         /\ treq[r].op = "get" /\ treq[r].pc = "done"
         /\ treq[r].path = treq[q].resp.pdfUrl
         /\ treq[r].who = treq[q].uid)
        => /\ Route(treq[r].path) = "get_tailored_resume_pdf"
           /\ treq[r].resp.status = 200
           /\ treq[r].resp.body = BytesOf(tailored[treq[q].resp.id].pdfData)

GetDone(r) == treq[r].op = "get" /\ treq[r].pc = "done"

ListTailoredReturns(r) ==
    treq[r].op = "list" /\ treq[r].pc = "find" /\ treq'[r].pc = "done"

TailoredIds(items) == {items[i].id : i \in DOMAIN items}

\* The answer of a list request: the metadata of exactly the caller's
\* artifacts, each once, by non-increasing createdAt, and no bytes.
C17_ListStep ==
    \A r \in TReqs :
        ListTailoredReturns(r) =>
            LET items == treq'[r].resp.items IN
            /\ TailoredIds(items) = {k \in DOMAIN tailored : tailored[k].user_id = treq[r].uid}
            /\ Len(items) = Cardinality(TailoredIds(items))
            /\ \A i \in DOMAIN items :
                  /\ DOMAIN items[i] = {"id", "filename", "jobLink", "createdAt"}
                  /\ items[i].filename = tailored[items[i].id].filename
                  /\ items[i].jobLink = tailored[items[i].id].jobLink
                  /\ items[i].createdAt = tailored[items[i].id].createdAt
            /\ \A i, j \in DOMAIN items : i < j => items[i].createdAt >= items[j].createdAt
            /\ treq'[r].resp.body = None /\ treq'[r].resp.pdfBase64 = None

\* The answer of the artifact-retrieval route to an authenticated caller
\* with a well-formed id: the bytes when the artifact exists and is the
\* caller's, otherwise 404 "Tailored resume not found", the same for an
\* artifact that does not exist and for one of another user.
C17_GetStep ==
    \A r \in TReqs :
        (treq[r].op = "get" /\ treq[r].pc = "find" /\ treq'[r].pc = "done") =>
            LET id == treq[r].path.id
                own == id \in DOMAIN tailored /\ tailored[id].user_id = treq[r].uid
            IN IF own
               THEN /\ treq'[r].resp.status = 200
                    /\ treq'[r].resp.body = BytesOf(tailored[id].pdfData)
               ELSE treq'[r].resp = TailorErr(404, "Tailored resume not found")

\* No answer of the route carries bytes unless it is a 200.
C17_NoBytes ==
    \A r \in TReqs : (GetDone(r) /\ treq[r].resp.status # 200) => treq[r].resp.body = None

\* C17: Artifact ownership isolation.  The list holds metadata without bytes
\* of exactly the caller's artifacts, newest first; retrieval returns bytes
\* only for an existing artifact of the caller, and the same 404 for a
\* nonexistent artifact and for an artifact of another user.
C17_ArtifactIsolation == [](C17_NoBytes) /\ [][C17_ListStep /\ C17_GetStep]_vars

\* A user's retrieval of another user's artifact has been answered 404
\* while the artifact is stored.
C17_Witness ==
    \E r \in TReqs :
        /\ GetDone(r) /\ treq[r].uid # NoUser
        /\ treq[r].path.id \in DOMAIN tailored
        /\ tailored[treq[r].path.id].user_id # treq[r].uid
        /\ treq[r].resp = TailorErr(404, "Tailored resume not found")

---------------------------------------------------------------------------
(* Properties of startup (SpecStartup) and of the event loop (SpecTailor) *)

\* C18: Startup failures are fatal.  A startup whose connection failed stays
\* failed, and the process serves requests only if no index creation failed:
\* every index of Indexes, the unique one on google_sub included, exists.
C18_ServingMeansIndexed ==
    Serving => (/\ ~startup.index_error
                /\ startup.created = Len(Indexes)
                /\ uniqueIdx)

C18_FailedStays == startup.pc = "failed" => startup'.pc = "failed"

C18_StartupFailuresFatal == [](C18_ServingMeansIndexed) /\ [][C18_FailedStays]_vars

\* A request that could arrive: its slot is the next free one and the bound
\* on requests is not reached.
CanArrive(q) ==
    /\ treq[q].pc = "idle"
    /\ \A p \in TReqs : TailorSlotBefore(p, q) => treq[p].pc # "idle"
    /\ ncalls < MaxTailorCalls

\* C19: Handlers yield at I/O boundaries.  While a tailor request is inside
\* the external pipeline call, a GET /health that arrives can be handled to
\* completion.
C19_HandlersYield ==
    \A r, q \in TReqs :
        (treq[r].pc = "pipeline" /\ CanArrive(q)) => ENABLED health_check(q)

---------------------------------------------------------------------------
(* Properties of a refused login, checked under SpecLogin *)

Refused(r) == lreq[r].pc = "done" /\ lreq[r].raised # None

\* A login whose token the verifier refused called the verifier once, and
\* carries no user id, no token and no cookie.
C20_NoEffect ==
    \A r \in LReqs :
        Refused(r) =>
            /\ lreq[r].verifications = 1
            /\ lreq[r].id = 0
            /\ lreq[r].cookie = NoCookie
            /\ lreq[r].max_age = 0

\* The step in which a login is refused changes no user record and mints
\* no token.
C20_RefusalStep ==
    \A r \in LReqs :
        (~Refused(r) /\ Refused(r)') => UNCHANGED <<users, minted, jar>>

C20_RefusedLoginHasNoEffect == [](C20_NoEffect) /\ [][C20_RefusalStep]_vars

\* C20: Failed external verification has no effect.  A login whose token
\* the verifier refuses is answered 401, calls the verifier once, creates
\* and updates no user record, and mints and sets no session token.
C20_FailedVerification ==
    /\ [](\A r \in LReqs : Refused(r) => lreq[r].status = 401)
    /\ C20_RefusedLoginHasNoEffect

\* C21: Order of checks on the routes addressed by id.  On GET, PUT and DELETE
\* /resumes/{id} and on GET /tailored-resumes/{id}/pdf a request without a
\* valid session is answered 401 whatever the id; with a valid session and a
\* malformed id it is answered 400 "Invalid resume ID" in the step of its
\* arrival, before any access to the store; with a well-formed id of a
\* document not visible to the caller at the lookup it is answered 404; and
\* the step that answers 400, 401 or 404 writes nothing to the store.
C21_ResumeOrder ==
    \A r \in Reqs :
        Done(r) /\ ById(r) =>
            /\ req[r].uid = NoUser => req[r].resp.status = 401
            /\ req[r].uid # NoUser /\ ~ObjectId_is_valid(req[r].rid)
                   => req[r].resp = Err(400, "Invalid resume ID") /\ req[r].case = "none"
            /\ req[r].uid # NoUser /\ ObjectId_is_valid(req[r].rid)
                   /\ req[r].case # "visible"
                   => req[r].resp = NotFound

C21_ArtifactOrder ==
    \A r \in TReqs :
        GetDone(r) /\ Route(treq[r].path) = "get_tailored_resume_pdf" =>
            LET id == treq[r].path.id IN
            /\ treq[r].uid = NoUser => treq[r].resp.status = 401
            /\ treq[r].uid # NoUser /\ ~ObjectId_is_valid(id)
                   => treq[r].resp = TailorErr(400, "Invalid resume ID")
            /\ treq[r].uid # NoUser /\ ObjectId_is_valid(id)
                   /\ ~(id \in DOMAIN tailored /\ tailored[id].user_id = treq[r].uid)
                   => treq[r].resp = TailorErr(404, "Tailored resume not found")

C21_Failure(status) == status \in {400, 401, 404}

C21_FailureStep ==
    /\ \A r \in Reqs :
           ~Done(r) /\ req'[r].pc = "done" /\ ById(r) /\ C21_Failure(req'[r].resp.status)
               => /\ resumes' = resumes /\ tailored' = tailored /\ users' = users
                  /\ req'[r].resp.status \in {400, 401} => req[r].pc = "idle"
    /\ \A r \in TReqs :
           treq[r].pc # "done" /\ treq'[r].pc = "done" /\ treq'[r].op = "get"
               /\ C21_Failure(treq'[r].resp.status)
               => /\ resumes' = resumes /\ tailored' = tailored /\ users' = users
                  /\ treq'[r].resp.status \in {400, 401} => treq[r].pc = "idle"

C21_OrderOfChecks ==
    /\ [](C21_ResumeOrder /\ C21_ArtifactOrder)
    /\ [][C21_FailureStep]_vars

\* Both failures at once: requests with no session and a malformed id, one on
\* each family of routes, answered 401.
C21_Witness ==
    /\ \E r \in Reqs :
           /\ Done(r) /\ ById(r) /\ req[r].uid = NoUser
           /\ ~ObjectId_is_valid(req[r].rid) /\ req[r].resp.status = 401
    /\ \E r \in TReqs :
           /\ GetDone(r) /\ treq[r].uid = NoUser
           /\ ~ObjectId_is_valid(treq[r].path.id) /\ treq[r].resp.status = 401

---------------------------------------------------------------------------
(* Properties of the rendering (SpecRender)                               *)

C22_First(sections, key) ==
    LET hits == {i \in DOMAIN sections : Lower(sections[i].title) = Lower(key)}
    IN IF hits = {} THEN 0 ELSE CHOOSE i \in hits : \A j \in hits : i <= j

C22_Firsts(sections) == {C22_First(sections, Keys[k]) : k \in DOMAIN Keys} \ {0}

\* The positions of the input in the order of the rendering: the first
\* Education, the first Experience and the first Projects section, then every
\* other position in the order of the input.
C22_Order(sections) ==
    SelectSeq([k \in DOMAIN Keys |-> C22_First(sections, Keys[k])], LAMBDA i : i # 0)
    \o SelectSeq([i \in DOMAIN sections |-> i], LAMBDA i : i \notin C22_Firsts(sections))

C22_Expected(sections) ==
    LET order == C22_Order(sections)
        withItems == SelectSeq(order, LAMBDA i : sections[i].items # <<>>)
    IN [j \in DOMAIN withItems |-> Rendered(sections[withItems[j]])]

\* C22: Fixed section ordering in rendering.  For every input list of
\* sections the rendered sequence is: the Education section, then the
\* Experience section, then the Projects section (titles matched without
\* regard to case), then all other sections in their original relative order,
\* where every section of the input that has at least one item is rendered
\* exactly once, also when sections share a title or are equal in content,
\* and no section without items is rendered.
C22_FixedSectionOrdering ==
    render.pc = "built" => render.story = C22_Expected(render.sections)

\* The same, on the inputs in which no two sections are equal in content.
C22_OrderingOfDistinctSections ==
    (/\ render.pc = "built"
     /\ \A i, j \in DOMAIN render.sections :
            render.sections[i] = render.sections[j] => i = j)
        => render.story = C22_Expected(render.sections)

---------------------------------------------------------------------------
(* Minted sessions (SpecSession)                                          *)

\* C23: Minted sessions always resolve to a user.  In every reachable state
\* every unexpired token the service has minted names a well-formed id of a
\* stored user; GET /auth/me with a minted token presented before its expiry
\* is answered 200 with the record of that user as stored at the lookup,
\* never 404 and never a server error.
C23_MintedNamesUser ==
    \A c \in minted :
        When(c, now) # "after exp" => c.sub >= 1 /\ c.sub \in DOMAIN users

C23_MeAnswered ==
    \A r \in SReqs :
        (/\ sreq[r].pc = "done"
         /\ sreq[r].cookie \in minted
         /\ sreq[r].when = "before exp")
            => /\ sreq[r].status = 200
               /\ sreq[r].user.google_sub = users[sreq[r].cookie.sub].google_sub
               /\ sreq[r].user.email = users[sreq[r].cookie.sub].email
               /\ sreq[r].user.created_at = users[sreq[r].cookie.sub].created_at

C23_LookupStep ==
    \A r \in SReqs :
        (/\ sreq[r].pc = "find" /\ sreq'[r].pc = "done"
         /\ sreq[r].cookie \in minted)
            => sreq'[r].status = 200 /\ sreq'[r].user = users[sreq[r].cookie.sub]

C23_MintedSessionsResolve ==
    /\ [](C23_MintedNamesUser /\ C23_MeAnswered)
    /\ [][C23_LookupStep]_vars

\* GET /auth/me answered 200 for the token of a user the login has just
\* inserted.
C23_Witness ==
    \E r \in SReqs :
        /\ sreq[r].pc = "done" /\ sreq[r].cookie \in minted
        /\ sreq[r].when = "before exp" /\ sreq[r].status = 200
        /\ sreq[r].cookie.sub = 2 /\ sreq[r].user = users[2]

---------------------------------------------------------------------------
(* The bytes of an artifact (SpecTailor)                                  *)

\* base64.b64decode on the text of B64Encode
B64Decode(text) == IF text[1] = "base64" THEN text[2] ELSE None

\* A tailor request answered 200: the decoded pdfBase64, the stored bytes and
\* the bytes of an owner's answered get on the returned id are the rendered
\* bytes, and the filename of the response is the stored one.
C24_Bytes ==
    \A q \in TReqs :
        TailorDone(q) /\ treq[q].resp.status = 200 =>
            LET id == treq[q].resp.id
                pdf_bytes == treq[q].pdf
            IN /\ pdf_bytes \in Pdfs
               /\ B64Decode(treq[q].resp.pdfBase64) = pdf_bytes
               /\ id \in DOMAIN tailored
               /\ BytesOf(tailored[id].pdfData) = pdf_bytes
               /\ treq[q].resp.filename = tailored[id].filename
               /\ \A r \in TReqs :
                      (/\ GetDone(r) /\ treq[r].path = TailoredPdfPath(id)
                       /\ treq[r].uid = treq[q].uid /\ treq[r].resp.status = 200)
                          => treq[r].resp.body = pdf_bytes

\* A stored artifact keeps its bytes and its filename, and the lookup of a
\* get by the owner of a stored artifact answers 200 with its bytes.
C24_Step ==
    /\ \A k \in DOMAIN tailored :
           k \in DOMAIN tailored' /\ tailored'[k] = tailored[k]
    /\ \A r \in TReqs :
           (/\ treq[r].op = "get" /\ treq[r].pc = "find" /\ treq'[r].pc = "done"
            /\ treq[r].path.id \in DOMAIN tailored
            /\ tailored[treq[r].path.id].user_id = treq[r].uid)
               => /\ treq'[r].resp.status = 200
                  /\ treq'[r].resp.body = BytesOf(tailored[treq[r].path.id].pdfData)

\* C24: Artifact byte round trip.  For every successful tailor request the
\* bytes obtained by base64-decoding pdfBase64 of the response, the bytes
\* stored in the artifact and the bytes returned by every later get of the
\* owner on the returned id are the bytes the rendering produced, and the
\* filename of the response is the stored filename.
C24_ByteRoundTrip == [](C24_Bytes) /\ [][C24_Step]_vars

\* A tailor request answered 200 and a later get of its owner on the returned
\* id answered with the rendered bytes, while the store holds another
\* artifact with other bytes.
C24_Witness ==
    \E q, r \in TReqs :
        /\ TailorDone(q) /\ treq[q].resp.status = 200
        /\ GetDone(r) /\ treq[r].path = TailoredPdfPath(treq[q].resp.id)
        /\ treq[r].uid = treq[q].uid /\ treq[r].resp.status = 200
        /\ treq[r].resp.body = treq[q].pdf
        /\ \E k \in DOMAIN tailored : tailored[k].pdfData # tailored[treq[q].resp.id].pdfData

====
